---- MODULE Spec2Model ----
(***************************************************************************)
(* A model of reqwless' HttpClient (src/src/client.rs): the request        *)
(* encoder `request`, the response decoder `read_response`, and the two    *)
(* lexical helpers `find_sequence` and `match_header`.                     *)
(*                                                                         *)
(* Bytes are integers 0..255 and a byte string (&[u8], &str) is a sequence *)
(* of bytes; a &str is a byte string that is valid UTF-8.  Offsets are the *)
(* 0-based offsets of the Rust code; SubSeq is 1-based.                    *)
(* Option and Result values are tagged records.  A Rust panic (a slice     *)
(* index out of range or off a char boundary, slice::windows(0), an        *)
(* arithmetic overflow of a build with overflow checks) is the value Panic.*)
(***************************************************************************)
EXTENDS Integers, Sequences, FiniteSets, TLC

VARIABLES
    request,        \* the Request passed to HttpClient::request
    host,           \* HttpClient.host
    rx_len,         \* rx_buf.len()
    pc,             \* position of the call in request / read_response
    xh_idx,         \* number of extra headers already written (the iterator of line 82)
    piece_idx,      \* number of writes already made of the segment being written
    wlog,           \* transport: the write calls issued so far, with their outcomes
    short_left,     \* transport: how many more writes may accept fewer bytes than given
    stream,         \* transport: the bytes the peer sends in answer
    delivered,      \* transport: how many bytes of stream reads have handed over
    zero_reads,     \* transport: number of reads that returned Ok(0)
    rd_err,         \* transport: the error a read returned, if one did
    rx_buf,         \* the caller's receive buffer
    pos,            \* read_response: pos
    header_end,     \* read_response: header_end
    status,         \* read_response: status
    content_type,   \* read_response: content_type
    content_length, \* read_response: content_length
    to_read,        \* read_response: to_read
    result,         \* what the call returned (Pending while it runs)
    resp,           \* the structured description the peer built stream from
    fn_in,          \* arguments of the lexical helper under test
    fn_out          \* its result

encVars == <<request, host, xh_idx, piece_idx, wlog, short_left>>
netVars == <<stream, delivered, zero_reads, rd_err>>
decVars == <<rx_buf, pos, header_end, status, content_type, content_length, to_read>>
fnVars  == <<fn_in, fn_out>>
vars    == <<encVars, netVars, decVars, fnVars, rx_len, pc, result, resp>>

----------------------------------------------------------------------------
(* Option, Result and panic values *)

None        == [tag |-> "None"]
Some(v)     == [tag |-> "Some", val |-> v]
Ok(v)       == [tag |-> "Ok", val |-> v]
Err(e)      == [tag |-> "Err", err |-> e]
Panic       == [tag |-> "Panic"]
Pending     == [tag |-> "Pending"]

\* Error::Codec and Error::Network(kind)
Codec         == [kind |-> "Codec"]
Network(k)    == [kind |-> "Network", io |-> k]

\* The embedded_io::ErrorKind values the transport of the model reports.
ErrorKinds  == {"ConnectionReset", "TimedOut"}

----------------------------------------------------------------------------
(* Byte strings *)

Min(a, b)     == IF a <= b THEN a ELSE b
Take(s, n)    == SubSeq(s, 1, n)
Drop(s, n)    == SubSeq(s, n + 1, Len(s))
IsPrefix(p, s) == Len(p) <= Len(s) /\ Take(s, Len(p)) = p

RECURSIVE Flatten(_)
Flatten(ss)   == IF ss = <<>> THEN <<>> ELSE Head(ss) \o Flatten(Tail(ss))

\* The string literals of the code.
S_CRLF        == <<13, 10>>                                    \* "\r\n"
S_TERM        == <<13, 10, 13, 10>>                            \* b"\r\n\r\n"
S_SP          == <<32>>                                        \* " "
S_SLASH       == <<47>>                                        \* "/"
S_COLON_SP    == <<58, 32>>                                    \* ": "
S_HTTP11      == <<32, 72, 84, 84, 80, 47, 49, 46, 49, 13, 10>> \* " HTTP/1.1\r\n"
S_Host        == <<72, 111, 115, 116>>                         \* "Host"
S_AuthBasic   == <<65, 117, 116, 104, 111, 114, 105, 122, 97, 116, 105, 111, 110,
                   58, 32, 66, 97, 115, 105, 99, 32>>          \* "Authorization: Basic "
S_ContentType == <<67, 111, 110, 116, 101, 110, 116, 45, 84, 121, 112, 101>>
S_ContentLength == <<67, 111, 110, 116, 101, 110, 116, 45, 76, 101, 110, 103, 116, 104>>
S_HTTP        == <<72, 84, 84, 80>>                            \* "HTTP"
S_HTTP_N_N    == <<72, 84, 84, 80, 47, 78, 46, 78, 32>>        \* b"HTTP/N.N "
S_content_type == <<99, 111, 110, 116, 101, 110, 116, 45, 116, 121, 112, 101>>
S_content_type_colon == S_content_type \o <<58>>               \* "content-type:"
S_content_length == <<99, 111, 110, 116, 101, 110, 116, 45, 108, 101, 110, 103, 116, 104>>
S_content_length_colon == S_content_length \o <<58>>           \* "content-length:"

\* u8::to_ascii_lowercase and <str>::eq_ignore_ascii_case
ToAsciiLower(b) == IF b >= 65 /\ b <= 90 THEN b + 32 ELSE b
EqIgnoreAsciiCase(a, b) ==
    /\ Len(a) = Len(b)
    /\ \A i \in 1..Len(a) : ToAsciiLower(a[i]) = ToAsciiLower(b[i])

\* core::str::from_utf8: whether the bytes from offset i on are well-formed UTF-8.
IsCont(s, i, lo, hi) == i <= Len(s) /\ s[i] >= lo /\ s[i] <= hi
RECURSIVE Utf8From(_, _)
Utf8From(s, i) ==
    IF i > Len(s) THEN TRUE
    ELSE LET b == s[i] IN
         IF b < 128 THEN Utf8From(s, i + 1)
         ELSE IF b >= 194 /\ b <= 223
              THEN IsCont(s, i + 1, 128, 191) /\ Utf8From(s, i + 2)
         ELSE IF b >= 224 /\ b <= 239
              THEN /\ IsCont(s, i + 1, IF b = 224 THEN 160 ELSE 128,
                                       IF b = 237 THEN 159 ELSE 191)
                   /\ IsCont(s, i + 2, 128, 191)
                   /\ Utf8From(s, i + 3)
         ELSE IF b >= 240 /\ b <= 244
              THEN /\ IsCont(s, i + 1, IF b = 240 THEN 144 ELSE 128,
                                       IF b = 244 THEN 143 ELSE 191)
                   /\ IsCont(s, i + 2, 128, 191)
                   /\ IsCont(s, i + 3, 128, 191)
                   /\ Utf8From(s, i + 4)
         ELSE FALSE
from_utf8(bytes) == IF Utf8From(bytes, 1) THEN Ok(bytes) ELSE Err(Codec)

\* str::is_char_boundary at 0-based byte offset i
IsCharBoundary(s, i) ==
    \/ i = 0
    \/ i = Len(s)
    \/ i < Len(s) /\ (s[i + 1] < 128 \/ s[i + 1] >= 192)

\* &s[a..b] on a str: panics unless a <= b <= len and both lie on char boundaries.
StrSlice(s, a, b) ==
    IF a <= b /\ b <= Len(s) /\ IsCharBoundary(s, a) /\ IsCharBoundary(s, b)
    THEN Ok(SubSeq(s, a + 1, b))
    ELSE Panic

\* str::starts_with
StartsWith(s, p) == IsPrefix(p, s)

\* str::trim_start: drops leading characters that have the White_Space property.
WhiteSpace ==
    {<<9>>, <<10>>, <<11>>, <<12>>, <<13>>, <<32>>,
     <<194, 133>>, <<194, 160>>, <<225, 154, 128>>,
     <<226, 128, 168>>, <<226, 128, 169>>, <<226, 128, 175>>,
     <<226, 129, 159>>, <<227, 128, 128>>}
       \cup {<<226, 128, b>> : b \in 128..138}
RECURSIVE TrimStart(_)
TrimStart(s) ==
    IF \E w \in WhiteSpace : IsPrefix(w, s)
    THEN LET w == CHOOSE x \in WhiteSpace : IsPrefix(x, s) IN TrimStart(Drop(s, Len(w)))
    ELSE s

----------------------------------------------------------------------------
(* Lexical helpers, lines 225-252 *)

\* The loop of find_sequence over haystack.windows(needle.len()): p counts the
\* windows already compared.
RECURSIVE FindWindow(_, _, _)
FindWindow(haystack, needle, p) ==
    IF p + Len(needle) > Len(haystack) THEN None
    ELSE IF SubSeq(haystack, p + 1, p + Len(needle)) = needle THEN Some(p)
    ELSE FindWindow(haystack, needle, p + 1)

\* A mutant of find_sequence: only the last needle.len() bytes are compared.
find_sequence_TailOnly(haystack, needle) ==
    IF Len(haystack) < Len(needle) THEN None
    ELSE IF needle = <<>> THEN Panic
    ELSE IF SubSeq(haystack, Len(haystack) - Len(needle) + 1, Len(haystack)) = needle
         THEN Some(Len(haystack) - Len(needle))
         ELSE None

\* fn find_sequence(haystack: &[u8], needle: &[u8]) -> Option<usize>.
\* slice::windows panics when the window size is zero.
find_sequence(haystack, needle) ==
    IF Len(haystack) < Len(needle) THEN None
    ELSE IF Len(needle) = 0 THEN Panic
    ELSE FindWindow(haystack, needle, 0)

\* fn match_header(line: &str, hdr: &str) -> bool; line[0..hdr.len()] is a str
\* slice and panics when hdr.len() falls inside a character of line.
match_header(line, hdr) ==
    IF Len(line) >= Len(hdr)
    THEN LET head == StrSlice(line, 0, Len(hdr)) IN
         IF head.tag = "Panic" THEN Panic
         ELSE Ok(EqIgnoreAsciiCase(head.val, hdr))
    ELSE Ok(FALSE)

----------------------------------------------------------------------------
(* Numbers and encodings used by the encoder and the decoder *)

\* usize is UsizeBits wide (a 64-bit build).  A usize whose value matters beyond
\* the buffer's length (content_length, content_length - pos) is a word: its
\* UsizeLimbs limbs of 16 bits, least significant first.
UsizeBits   == 64
LimbBase    == 2 ^ 16
UsizeLimbs  == UsizeBits \div 16

\* The word of the number n (n as usize)
RECURSIVE LimbsOf(_, _)
LimbsOf(n, k) ==
    IF k = 0 THEN <<>> ELSE <<n % LimbBase>> \o LimbsOf(n \div LimbBase, k - 1)
Usize(n)    == LimbsOf(n, UsizeLimbs)

\* The number of a word below 2^31
UsizeInt(w) == w[1] + w[2] * LimbBase

\* a < b on usize
RECURSIVE LimbsLess(_, _, _)
LimbsLess(a, b, i) ==
    IF i = 0 THEN FALSE
    ELSE IF a[i] # b[i] THEN a[i] < b[i]
    ELSE LimbsLess(a, b, i - 1)
UsizeLess(a, b) == LimbsLess(a, b, UsizeLimbs)

\* a - b on usize, modulo 2^UsizeBits (usize::wrapping_sub)
RECURSIVE SubLimbs(_, _, _)
SubLimbs(a, b, borrow) ==
    IF a = <<>> THEN <<>>
    ELSE LET d == a[1] - b[1] - borrow IN
         <<d % LimbBase>> \o SubLimbs(Tail(a), Tail(b), IF d < 0 THEN 1 ELSE 0)
WrappingSub(a, b) == SubLimbs(a, b, 0)

\* a * m + c on usize with the carry out of the top limb (checked_mul, checked_add)
RECURSIVE MulAdd(_, _, _)
MulAdd(a, m, c) ==
    IF a = <<>> THEN [limbs |-> <<>>, carry |-> c]
    ELSE LET x == a[1] * m + c
             r == MulAdd(Tail(a), m, x \div LimbBase)
         IN [limbs |-> <<x % LimbBase>> \o r.limbs, carry |-> r.carry]

IsDigit(b)  == b >= 48 /\ b <= 57
RECURSIVE DigitsValue(_)
DigitsValue(ds) ==
    IF ds = <<>> THEN 0
    ELSE DigitsValue(SubSeq(ds, 1, Len(ds) - 1)) * 10 + (ds[Len(ds)] - 48)

\* <unsigned>::from_str: an optional '+', then one or more decimal digits.
ParseDigits(s) ==
    IF s = <<>> THEN Err(Codec)
    ELSE IF Len(s) = 1 /\ s[1] \in {43, 45} THEN Err(Codec)
    ELSE LET ds == IF s[1] = 43 THEN Tail(s) ELSE s IN
         IF \A i \in 1..Len(ds) : IsDigit(ds[i]) THEN Ok(DigitsValue(ds)) ELSE Err(Codec)

\* str::parse::<u32> of the three status characters (no three characters overflow u32).
ParseU32(s) == ParseDigits(s)

\* The digits ds read into acc, most significant first; a value that does not
\* fit usize is an error (lines 142, 213-217).
RECURSIVE ParseUsizeDigits(_, _)
ParseUsizeDigits(ds, acc) ==
    IF ds = <<>> THEN Ok(acc)
    ELSE LET r == MulAdd(acc, 10, ds[1] - 48) IN
         IF r.carry > 0 THEN Err(Codec) ELSE ParseUsizeDigits(Tail(ds), r.limbs)

\* A mutant of ParseUsize: the leading digits are taken and the rest ignored.
ParseUsize_Lenient(s) ==
    LET k == CHOOSE n \in 0..Len(s) :
                 /\ \A i \in 1..n : IsDigit(s[i])
                 /\ (n = Len(s) \/ ~IsDigit(s[n + 1]))
        r == ParseUsizeDigits(SubSeq(s, 1, k), Usize(0))
    IN IF r.tag = "Ok" THEN r ELSE Ok(Usize(0))

\* str::parse::<usize>: an optional '+', then one or more decimal digits whose
\* value fits usize.
ParseUsize(s) ==
    IF s = <<>> THEN Err(Codec)
    ELSE IF Len(s) = 1 /\ s[1] \in {43, 45} THEN Err(Codec)
    ELSE LET ds == IF s[1] = 43 THEN Tail(s) ELSE s IN
         IF \A i \in 1..Len(ds) : IsDigit(ds[i])
         THEN ParseUsizeDigits(ds, Usize(0))
         ELSE Err(Codec)

\* write!(s, "{}", n) for an unsigned n
RECURSIVE ToDecimal(_)
ToDecimal(n) ==
    IF n < 10 THEN <<48 + n>> ELSE ToDecimal(n \div 10) \o <<48 + (n % 10)>>

\* base64::encode_config_slice(.., base64::STANDARD, ..): standard alphabet, padded.
B64Char(i) ==
    IF i < 26 THEN 65 + i
    ELSE IF i < 52 THEN 97 + (i - 26)
    ELSE IF i < 62 THEN 48 + (i - 52)
    ELSE IF i = 62 THEN 43 ELSE 47
RECURSIVE Base64(_)
Base64(s) ==
    IF s = <<>> THEN <<>>
    ELSE IF Len(s) = 1
         THEN <<B64Char(s[1] \div 4), B64Char((s[1] % 4) * 16), 61, 61>>
    ELSE IF Len(s) = 2
         THEN <<B64Char(s[1] \div 4), B64Char((s[1] % 4) * 16 + s[2] \div 16),
                B64Char((s[2] % 16) * 4), 61>>
    ELSE <<B64Char(s[1] \div 4), B64Char((s[1] % 4) * 16 + s[2] \div 16),
           B64Char((s[2] % 16) * 4 + s[3] \div 64), B64Char(s[3] % 64)>>
         \o Base64(Drop(s, 3))

\* str::split(pat): the pieces between the non-overlapping occurrences of pat, left
\* to right, the empty pieces included.
RECURSIVE Split(_, _)
Split(s, pat) ==
    LET f == FindWindow(s, pat, 0) IN
    IF f.tag = "None" THEN <<s>>
    ELSE <<Take(s, f.val)>> \o Split(Drop(s, f.val + Len(pat)), pat)

RECURSIVE Join(_, _)
Join(lines, sep) ==
    IF lines = <<>> THEN <<>>
    ELSE IF Len(lines) = 1 THEN lines[1]
    ELSE lines[1] \o sep \o Join(Tail(lines), sep)

----------------------------------------------------------------------------
(* Types of crate::request that the client converts to and from.  Their    *)
(* definitions are outside client.rs; they follow the specification.       *)

S_GET         == <<71, 69, 84>>
S_POST        == <<80, 79, 83, 84>>
S_PUT         == <<80, 85, 84>>
S_DELETE      == <<68, 69, 76, 69, 84, 69>>
S_text_plain  == <<116, 101, 120, 116, 47, 112, 108, 97, 105, 110>>
S_app_json    == <<97, 112, 112, 108, 105, 99, 97, 116, 105, 111, 110, 47, 106, 115, 111, 110>>

\* Method::as_str
MethodStr(m) ==
    CASE m = "GET" -> S_GET
      [] m = "POST" -> S_POST
      [] m = "PUT" -> S_PUT
      [] m = "DELETE" -> S_DELETE

\* ContentType::as_str (request side)
ContentTypeStr(ct) ==
    CASE ct = "TextPlain" -> S_text_plain
      [] ct = "ApplicationJson" -> S_app_json

\* Status, by its numeric code; From<u32> maps every code outside the supported
\* set to the sentinel Status::BadRequest.
BadRequest      == 400
SupportedStatus == {200, 201, 202, 400, 401, 403, 404}
StatusFrom(n)   == IF n \in SupportedStatus THEN n ELSE BadRequest

\* The conversion of the trimmed header value into Response.content_type.  The
\* value is taken when the line is parsed: the buffer is written again later
\* (lines 147-149, 174) while content_type is alive, so it holds no view of rx_buf.
ContentTypeFrom(text) == text

----------------------------------------------------------------------------
(* read_response: header parsing, lines 127-144 *)

\* A mutant of StatusText: the offset taken after "HTTP" instead of "HTTP/N.N ".
StatusText_AfterHttp(line) ==
    StrSlice(line, Len(S_HTTP), Len(S_HTTP) + 3)

\* line[pos..pos + 3] with pos = b"HTTP/N.N ".len()
StatusText(line) ==
    StrSlice(line, Len(S_HTTP_N_N), Len(S_HTTP_N_N) + 3)

\* A mutant of ContentTypeText: the value is not trimmed.
ContentTypeText_Untrimmed(line) ==
    StrSlice(line, Len(S_content_type_colon), Len(line))

\* line["content-type:".len()..].trim_start()
ContentTypeText(line) ==
    LET v == StrSlice(line, Len(S_content_type_colon), Len(line)) IN
    IF v.tag = "Panic" THEN Panic ELSE Ok(TrimStart(v.val))

\* line["content-length:".len()..].trim_start()
ContentLengthText(line) ==
    LET v == StrSlice(line, Len(S_content_length_colon), Len(line)) IN
    IF v.tag = "Panic" THEN Panic ELSE Ok(TrimStart(v.val))

\* The body of `for line in lines`: st holds status, content_type, content_length.
ParseLine(line, st) ==
    IF StartsWith(line, S_HTTP)
    THEN LET t == StatusText(line) IN
         IF t.tag = "Panic" THEN Panic
         ELSE LET n == ParseU32(t.val) IN
              IF n.tag = "Err" THEN Err(Codec)
              ELSE Ok([st EXCEPT !.status = StatusFrom(n.val)])
    ELSE LET m1 == match_header(line, S_content_type) IN
         IF m1.tag = "Panic" THEN Panic
         ELSE IF m1.val
         THEN LET t == ContentTypeText(line) IN
              IF t.tag = "Panic" THEN Panic
              ELSE Ok([st EXCEPT !.content_type = Some(ContentTypeFrom(t.val))])
         ELSE LET m2 == match_header(line, S_content_length) IN
              IF m2.tag = "Panic" THEN Panic
              ELSE IF m2.val
              THEN LET t == ContentLengthText(line) IN
                   IF t.tag = "Panic" THEN Panic
                   ELSE LET n == ParseUsize(t.val) IN
                        IF n.tag = "Err" THEN Err(Codec)
                        ELSE Ok([st EXCEPT !.content_length = n.val])
              ELSE Ok(st)

RECURSIVE ParseLines(_, _)
ParseLines(lines, st) ==
    IF lines = <<>> THEN Ok(st)
    ELSE LET r == ParseLine(Head(lines), st) IN
         IF r.tag = "Ok" THEN ParseLines(Tail(lines), r.val) ELSE r

\* Lines 127-144 on the bytes rx_buf[..header_end].
ParseHeaderBlock(bytes) ==
    LET header == from_utf8(bytes) IN
    IF header.tag = "Err" THEN header
    ELSE ParseLines(Split(header.val, S_CRLF),
                    [status |-> BadRequest, content_type |-> None, content_length |-> Usize(0)])

\* A mutant of CompactFrom: the source index is one byte too low.
RECURSIVE CompactFrom_OffByOne(_, _, _, _)
CompactFrom_OffByOne(buf, i, n, he) ==
    IF i >= n THEN buf
    ELSE CompactFrom_OffByOne([buf EXCEPT ![i + 1] = buf[he + i]], i + 1, n, he)

\* Lines 147-149: for i in 0..n { rx_buf[i] = rx_buf[he + i] }, from index i on.
RECURSIVE CompactFrom(_, _, _, _)
CompactFrom(buf, i, n, he) ==
    IF i >= n THEN buf
    ELSE CompactFrom([buf EXCEPT ![i + 1] = buf[he + i + 1]], i + 1, n, he)

\* The buffer after a read stored `bytes` at offset `at`.
Store(buf, at, bytes) ==
    [i \in 1..Len(buf) |->
        IF i > at /\ i <= at + Len(bytes) THEN bytes[i - at] ELSE buf[i]]

----------------------------------------------------------------------------
(* The transport *)

\* How many reads returning Ok(0) the transport of the model makes in a call.
MaxZeroReads == 1

\* What connection.read may return for a target slice of m bytes: an error, or
\* Ok(n) with n bytes of the stream stored at the start of the slice.
ReadOutcomes(m) ==
    {Err(k) : k \in ErrorKinds}
      \cup {Ok(n) : n \in 1..Min(m, Len(stream) - delivered)}
      \cup (IF zero_reads < MaxZeroReads THEN {Ok(0)} ELSE {})

\* What connection.write may return for data: an error, Ok(data.len()), or,
\* while the budget of short writes allows, Ok of one byte less.
WriteOutcomes(data) ==
    {Err(k) : k \in ErrorKinds}
      \cup {Ok(Len(data))}
      \cup (IF short_left > 0 /\ Len(data) > 0 THEN {Ok(Len(data) - 1)} ELSE {})

\* A mutant of WriteEntry: the byte a short write left out is written again.
WriteEntry_Retry(data, out) ==
    IF out.tag = "Ok" /\ out.val < Len(data)
    THEN <<[data |-> data, out |-> out], [data |-> <<data[Len(data)]>>, out |-> Ok(1)]>>
    ELSE <<[data |-> data, out |-> out]>>

\* The calls of connection.write that write_data(data) makes when the transport
\* returns out, as logged: the data passed and what the call returned.
WriteEntry(data, out) == <<[data |-> data, out |-> out]>>

----------------------------------------------------------------------------
(* HttpClient::request, lines 51-102 *)

CombinedCap == 128
LengthCap   == 32

\* A mutant of write_header: the closing CRLF is not written.
write_header_NoCrlf(key, value) == <<key, S_COLON_SP, value>>

\* write_header, lines 38-44: the four writes of one header line
write_header(key, value) == <<key, S_COLON_SP, value, S_CRLF>>

\* The writes of lines 52-55
RequestLinePieces(req) ==
    <<MethodStr(req.method), S_SP,
      IF req.path.tag = "Some" THEN req.path.val ELSE S_SLASH,
      S_HTTP11>>

\* Lines 62-63: write!(combined, "{}:{}", username, password)
Combined(auth) == auth.username \o <<58>> \o auth.password

\* The writes of lines 66-69
AuthPieces(auth) == <<S_AuthBasic, Base64(Combined(auth)), S_CRLF>>

\* A mutant of WritePiece: the result of a failed write is dropped and the call goes on.
WritePiece_IgnoringErrors(ps, next) ==
    LET data == ps[piece_idx + 1] IN
    \E out \in WriteOutcomes(data) :
        /\ wlog' = wlog \o WriteEntry(data, out)
        /\ short_left' = IF out.tag = "Ok" /\ out.val < Len(data)
                         THEN short_left - 1 ELSE short_left
        /\ result' = result
        /\ IF piece_idx + 1 = Len(ps)
           THEN pc' = next /\ piece_idx' = 0
           ELSE pc' = pc /\ piece_idx' = piece_idx + 1

\* One write_data call (lines 29-32, 92-98): the next piece of the segment ps is
\* written.  On Ok the call goes on with the next piece, at position next after
\* the last one; on an error it returns Error::Network with the error's kind.
WritePiece(ps, next) ==
    LET data == ps[piece_idx + 1] IN
    \E out \in WriteOutcomes(data) :
        /\ wlog' = wlog \o WriteEntry(data, out)
        /\ short_left' = IF out.tag = "Ok" /\ out.val < Len(data)
                         THEN short_left - 1 ELSE short_left
        /\ IF out.tag = "Ok"
           THEN /\ result' = result
                /\ IF piece_idx + 1 = Len(ps)
                   THEN pc' = next /\ piece_idx' = 0
                   ELSE pc' = pc /\ piece_idx' = piece_idx + 1
           ELSE /\ pc' = "done"
                /\ result' = Err(Network(out.err))
                /\ piece_idx' = piece_idx

\* Each step of the actions below is one awaited connection.write: piece_idx
\* tells how many writes of the segment (a request line, a header) are done.

\* Lines 52-55
WriteRequestLine ==
    /\ pc = "request_line"
    /\ WritePiece(RequestLinePieces(request), "host")
    /\ UNCHANGED <<request, host, xh_idx, netVars, decVars, fnVars, rx_len, resp>>

\* Line 57
WriteHost ==
    /\ pc = "host"
    /\ WritePiece(write_header(S_Host, host), "auth")
    /\ UNCHANGED <<request, host, xh_idx, netVars, decVars, fnVars, rx_len, resp>>

\* Lines 59-72
WriteAuth ==
    /\ pc = "auth"
    /\ IF request.auth.tag = "None"
       THEN pc' = "content_type" /\ UNCHANGED <<wlog, short_left, piece_idx, result>>
       ELSE IF Len(Combined(request.auth.val)) > CombinedCap
       THEN pc' = "done" /\ result' = Err(Codec) /\ UNCHANGED <<wlog, short_left, piece_idx>>
       ELSE WritePiece(AuthPieces(request.auth.val), "content_type")
    /\ UNCHANGED <<request, host, xh_idx, netVars, decVars, fnVars, rx_len, resp>>

\* Lines 73-75
WriteContentType ==
    /\ pc = "content_type"
    /\ IF request.content_type.tag = "None"
       THEN pc' = "content_length" /\ UNCHANGED <<wlog, short_left, piece_idx, result>>
       ELSE WritePiece(write_header(S_ContentType, ContentTypeStr(request.content_type.val)),
                   "content_length")
    /\ UNCHANGED <<request, host, xh_idx, netVars, decVars, fnVars, rx_len, resp>>

\* Lines 76-80
WriteContentLength ==
    /\ pc = "content_length"
    /\ IF request.payload.tag = "None"
       THEN pc' = "extra_headers" /\ UNCHANGED <<wlog, short_left, piece_idx, result>>
       ELSE LET s == ToDecimal(Len(request.payload.val)) IN
            IF Len(s) > LengthCap
            THEN pc' = "done" /\ result' = Err(Codec) /\ UNCHANGED <<wlog, short_left, piece_idx>>
            ELSE WritePiece(write_header(S_ContentLength, s), "extra_headers")
    /\ UNCHANGED <<request, host, xh_idx, netVars, decVars, fnVars, rx_len, resp>>

\* The loop of lines 82-84 has a header left to write.
ExtraLeft ==
    request.extra_headers.tag = "Some" /\ xh_idx < Len(request.extra_headers.val)

\* One write of the loop of lines 82-84
WriteExtraHeader ==
    /\ pc = "extra_headers"
    /\ ExtraLeft
    /\ LET h == request.extra_headers.val[xh_idx + 1] IN
       WritePiece(write_header(h[1], h[2]), "extra_headers")
    /\ xh_idx' = IF pc' = "extra_headers" /\ piece_idx' = 0 THEN xh_idx + 1 ELSE xh_idx
    /\ UNCHANGED <<request, host, netVars, decVars, fnVars, rx_len, resp>>

\* Line 86
WriteBlank ==
    /\ pc = "extra_headers"
    /\ ~ExtraLeft
    /\ WritePiece(<<S_CRLF>>, "payload")
    /\ UNCHANGED <<request, host, xh_idx, netVars, decVars, fnVars, rx_len, resp>>

\* Lines 88-101: the payload write, then read_response.
WritePayload ==
    /\ pc = "payload"
    /\ IF request.payload.tag = "None"
       THEN pc' = "read_header" /\ UNCHANGED <<wlog, short_left, piece_idx, result>>
       ELSE WritePiece(<<request.payload.val>>, "read_header")
    /\ UNCHANGED <<request, host, xh_idx, netVars, decVars, fnVars, rx_len, resp>>

----------------------------------------------------------------------------
(* HttpClient::read_response, lines 104-194 *)

\* One connection.read(&mut rx_buf[lo..hi]) returning out: what the transport
\* changes.
ReadCall(lo, hi, out) ==
    IF out.tag = "Ok"
    THEN /\ rx_buf' = Store(rx_buf, lo, SubSeq(stream, delivered + 1, delivered + out.val))
         /\ delivered' = delivered + out.val
         /\ zero_reads' = IF out.val = 0 THEN zero_reads + 1 ELSE zero_reads
         /\ rd_err' = rd_err
    ELSE /\ rd_err' = Some(out.err)
         /\ UNCHANGED <<rx_buf, delivered, zero_reads>>

\* A mutant of ReadError: the transport's error kind is lost.
ReadError_AsCodec(kind) == Err(Codec)

\* .map_err(|e| e.kind())? on a failed read (lines 108-115, 173-176): with
\* From<ErrorKind> the call returns Error::Network(kind).
ReadError(kind) == Err(Network(kind))

\* A mutant of HeaderEndAt: the terminator counted as two bytes long.
HeaderEndAt_TwoShort(n) == n + 2

\* header_end for a terminator found at offset n (line 121)
HeaderEndAt(n) == n + 4

\* One iteration of the loop of lines 107-124.
ReadHeader ==
    /\ pc = "read_header"
    /\ pos < rx_len
    /\ \E out \in ReadOutcomes(rx_len - pos) :
        /\ ReadCall(pos, rx_len, out)
        /\ IF out.tag = "Err"
           THEN /\ result' = ReadError(out.err)
                /\ pc' = "done"
                /\ UNCHANGED <<pos, header_end>>
           ELSE /\ pos' = pos + out.val
                /\ result' = result
                /\ LET f == find_sequence(Take(rx_buf', pos'), S_TERM) IN
                   IF f.tag = "Some"
                   THEN /\ header_end' = HeaderEndAt(f.val)
                        /\ pc' = "parse_header"
                   ELSE /\ pc' = "read_header"
                        /\ header_end' = header_end
    /\ UNCHANGED <<encVars, stream, status, content_type, content_length, to_read,
                   fnVars, rx_len, resp>>

\* The loop condition of line 107 fails: the buffer is full (or empty).
HeaderBufferFull ==
    /\ pc = "read_header"
    /\ ~(pos < rx_len)
    /\ pc' = "parse_header"
    /\ UNCHANGED <<encVars, netVars, rx_buf, pos, header_end, status, content_type,
                   content_length, to_read, fnVars, rx_len, result, resp>>

\* Lines 127-144
ParseHeader ==
    /\ pc = "parse_header"
    /\ LET r == ParseHeaderBlock(Take(rx_buf, header_end)) IN
       IF r.tag = "Ok"
       THEN /\ status' = r.val.status
            /\ content_type' = r.val.content_type
            /\ content_length' = r.val.content_length
            /\ pc' = "compact"
            /\ result' = result
       ELSE /\ result' = r
            /\ pc' = "done"
            /\ UNCHANGED <<status, content_type, content_length>>
    /\ UNCHANGED <<encVars, netVars, rx_buf, pos, header_end, to_read,
                   fnVars, rx_len, resp>>

\* Lines 146-150
Compact ==
    /\ pc = "compact"
    /\ rx_buf' = CompactFrom(rx_buf, 0, pos - header_end, header_end)
    /\ pos' = pos - header_end
    /\ pc' = "payload_setup"
    /\ UNCHANGED <<encVars, netVars, header_end, status, content_type, content_length,
                   to_read, fnVars, rx_len, result, resp>>

\* content_length - pos on usize (line 154): a build with overflow checks panics
\* when pos > content_length, a build without them wraps.
RemainingOutcomes(cl, p) ==
    IF ~UsizeLess(cl, Usize(p)) THEN {Ok(WrappingSub(cl, Usize(p)))}
    ELSE {Panic, Ok(WrappingSub(cl, Usize(p)))}

\* A mutant of ToRead: the cap is one byte above the room left in the buffer.
ToRead_CapOffByOne(len, p, remaining) ==
    LET room == Usize(len - p + 1) IN
    UsizeInt(IF UsizeLess(remaining, room) THEN remaining ELSE room)

\* A mutant of ToRead: the room is taken as the whole buffer, not what is left of it.
ToRead_FromCapacity(len, p, remaining) ==
    LET room == Usize(len) IN
    UsizeInt(IF UsizeLess(remaining, room) THEN remaining ELSE room)

\* to_read of line 157: core::cmp::min(rx_buf.len() - pos, content_length)
ToRead(len, p, remaining) ==
    LET room == Usize(len - p) IN
    UsizeInt(IF UsizeLess(remaining, room) THEN remaining ELSE room)

\* Lines 152-157
PayloadSetup ==
    /\ pc = "payload_setup"
    /\ IF UsizeLess(Usize(0), content_length)
       THEN \E rem \in RemainingOutcomes(content_length, pos) :
                IF rem.tag = "Panic"
                THEN pc' = "done" /\ result' = Panic /\ UNCHANGED to_read
                ELSE /\ to_read' = ToRead(rx_len, pos, rem.val)
                     /\ pc' = "read_payload"
                     /\ result' = result
       ELSE pc' = "respond" /\ UNCHANGED <<to_read, result>>
    /\ UNCHANGED <<encVars, netVars, rx_buf, pos, header_end, status, content_type,
                   content_length, fnVars, rx_len, resp>>

\* A mutant of ReadPayload: a read of zero bytes is taken as the end of the body.
ReadPayload_ZeroEnds ==
    /\ pc = "read_payload"
    /\ to_read > 0
    /\ \E out \in ReadOutcomes(to_read) :
         /\ ReadCall(pos, pos + to_read, out)
         /\ IF out.tag = "Err"
            THEN /\ result' = Err(Network(out.err))
                 /\ pc' = "done"
                 /\ UNCHANGED <<pos, to_read>>
            ELSE /\ pos' = pos + out.val
                 /\ to_read' = IF out.val = 0 THEN 0 ELSE to_read - out.val
                 /\ pc' = "read_payload"
                 /\ result' = result
    /\ UNCHANGED <<encVars, stream, header_end, status, content_type, content_length,
                   fnVars, rx_len, resp>>

\* One iteration of the loop of lines 171-179.
\* &mut rx_buf[pos..pos + to_read] panics when the range leaves the buffer.
ReadPayload ==
    /\ pc = "read_payload"
    /\ to_read > 0
    /\ IF pos + to_read > rx_len
       THEN /\ result' = Panic
            /\ pc' = "done"
            /\ UNCHANGED <<rx_buf, delivered, zero_reads, rd_err, pos, to_read>>
       ELSE \E out \in ReadOutcomes(to_read) :
            /\ ReadCall(pos, pos + to_read, out)
            /\ IF out.tag = "Err"
               THEN /\ result' = ReadError(out.err)
                    /\ pc' = "done"
                    /\ UNCHANGED <<pos, to_read>>
               ELSE /\ pos' = pos + out.val
                    /\ to_read' = to_read - out.val
                    /\ pc' = "read_payload"
                    /\ result' = result
    /\ UNCHANGED <<encVars, stream, header_end, status, content_type, content_length,
                   fnVars, rx_len, resp>>

\* A mutant of Payload: the test content_length > 0 taken as always true.
Payload_AlwaysSome == Some(Take(rx_buf, pos))

\* The payload of lines 152-185, once the loop is left
Payload == IF UsizeLess(Usize(0), content_length) THEN Some(Take(rx_buf, pos)) ELSE None

\* Lines 180-193
Respond ==
    /\ \/ pc = "respond"
       \/ pc = "read_payload" /\ ~(to_read > 0)
    /\ result' = Ok([status |-> status, content_type |-> content_type, payload |-> Payload])
    /\ pc' = "done"
    /\ UNCHANGED <<encVars, netVars, decVars, fnVars, rx_len, resp>>

----------------------------------------------------------------------------
(* The calls the model makes: requests, peers' answers and buffer sizes *)

\* Byte strings of length 0..n over the bytes S
Seqs(S, n) == UNION {[1..k -> S] : k \in 0..n}

\* What the peer answers: an optional status line, an optional Content-Type line
\* (name, white space, value), further lines, an optional Content-Length line
\* (name, white space, text), the terminator (unless the peer never sends it) and
\* the body.
HeaderLines(r) ==
    (IF r.status_line.tag = "Some" THEN <<r.status_line.val>> ELSE <<>>)
      \o (IF r.ct.tag = "Some"
          THEN <<r.ct.val.name \o <<58>> \o r.ct.val.ws \o r.ct.val.value>> ELSE <<>>)
      \o r.extra
      \o (IF r.cl.tag = "Some"
          THEN <<r.cl.val.name \o <<58>> \o r.cl.val.ws \o r.cl.val.text>> ELSE <<>>)

StreamOf(r) ==
    Join(HeaderLines(r), S_CRLF) \o (IF r.term THEN S_TERM ELSE S_CRLF) \o r.body

S_HTTP11_SP   == <<72, 84, 84, 80, 47, 49, 46, 49, 32>>     \* "HTTP/1.1 "
StatusLineOf(code) == S_HTTP11_SP \o code

S_200         == <<50, 48, 48>>
S_404         == <<52, 48, 52>>
S_299         == <<50, 57, 57>>
S_CONTENT_TYPE == <<67, 79, 78, 84, 69, 78, 84, 45, 84, 89, 80, 69>>
S_CONTENT_LENGTH == <<67, 79, 78, 84, 69, 78, 84, 45, 76, 69, 78, 71, 84, 72>>
S_a_b         == <<97, 47, 98>>                               \* "a/b"
S_X_y         == <<88, 58, 32, 121>>                          \* "X: y"

\* Longest body a well-formed answer of the model declares
MaxBody == 3
BodyBytes == <<98, 13, 10, 13, 10, 99, 100, 101>>             \* "b\r\n\r\ncde"
BodyOf(n) == Take(BodyBytes, n)

CtOptions ==
    {None,
     Some([name |-> S_ContentType, ws |-> <<32>>, value |-> S_a_b]),
     Some([name |-> S_content_type, ws |-> <<>>, value |-> <<116>>]),
     Some([name |-> S_CONTENT_TYPE, ws |-> <<32, 9>>, value |-> S_a_b])}

ClOption(name, ws, n) == Some([name |-> name, ws |-> ws, text |-> ToDecimal(n)])
ClOptions ==
    {None}
      \cup {ClOption(S_ContentLength, <<32>>, n) : n \in 0..MaxBody}
      \cup {ClOption(S_content_length, <<>>, MaxBody), ClOption(S_CONTENT_LENGTH, <<32, 32>>, 1)}

DeclaredLength(cl) == IF cl.tag = "Some" THEN DigitsValue(cl.val.text) ELSE 0

BaseResp ==
    [status_line |-> Some(StatusLineOf(S_200)), ct |-> None, extra |-> <<>>,
     cl |-> None, term |-> TRUE, body |-> <<>>]

\* Answers with a status line HTTP/1.1 ddd, ASCII header lines and a body of
\* exactly the declared length.
WellFormedResps ==
    {[BaseResp EXCEPT !.status_line = Some(StatusLineOf(code)), !.ct = ct]
        : code \in {S_200, S_404, S_299}, ct \in CtOptions}
      \cup {[BaseResp EXCEPT !.ct = ct, !.cl = cl, !.body = BodyOf(DeclaredLength(cl))]
        : ct \in CtOptions, cl \in ClOptions}
      \cup {[BaseResp EXCEPT !.status_line = Some(StatusLineOf(S_200) \o <<32, 79, 75>>),
                             !.extra = <<S_X_y>>,
                             !.cl = ClOption(S_ContentLength, <<32>>, MaxBody),
                             !.body = BodyOf(MaxBody)]}

\* Answers that leave the well-formed shape in one respect.
S_HTTP11_bare == <<72, 84, 84, 80, 47, 49, 46, 49>>           \* "HTTP/1.1"
S_content_typ_e_acute == <<99, 111, 110, 116, 101, 110, 116, 45, 116, 121, 112, 195, 169>>
WithStatusLine(l) == [BaseResp EXCEPT !.status_line = l]
WithExtra(ls)     == [BaseResp EXCEPT !.extra = ls]
WithLength(text, body) ==
    [BaseResp EXCEPT !.cl = Some([name |-> S_ContentLength, ws |-> <<32>>, text |-> text]),
                     !.body = body]

OddStatusResps ==
    {WithStatusLine(None),
     WithStatusLine(Some(S_HTTP11_bare)),                       \* "HTTP/1.1"
     WithStatusLine(Some(S_HTTP11_SP \o <<50, 48>>)),          \* "HTTP/1.1 20"
     WithStatusLine(Some(S_HTTP11_SP \o <<50, 120, 48>>)),     \* "HTTP/1.1 2x0"
     WithStatusLine(Some(S_HTTP11_SP \o <<43, 50, 48>>)),      \* "HTTP/1.1 +20"
     WithStatusLine(Some(S_HTTP11_SP \o <<50, 48, 195, 169>>)),\* "HTTP/1.1 20" e-acute
     WithExtra(<<StatusLineOf(S_404)>>)}                        \* a second status line

OddLineResps ==
    {WithExtra(<<S_content_type>>),                             \* no colon, no value
     WithExtra(<<S_content_length>>),
     WithExtra(<<S_content_typ_e_acute>>),                      \* a character across offset 12
     WithExtra(<<<<88, 255>>>>),                                \* not UTF-8
     WithExtra(<<S_content_type \o <<88, 58, 32, 118>>>>),      \* "content-typeX: v"
     WithExtra(<<S_X_y, <<>>, S_X_y>>)}

OddLengthResps ==
    {WithLength(<<120>>, <<>>),                                 \* "x"
     WithLength(<<>>, <<>>),
     WithLength(<<45, 49>>, <<98>>),                            \* "-1"
     WithLength(<<51, 32>>, BodyOf(3)),                         \* "3 "
     WithLength(<<43, 50>>, BodyOf(2)),                         \* "+2"
     WithLength(<<57, 57, 57, 57, 57, 57, 57, 57>>, <<98>>),    \* far more than is sent
     WithLength([i \in 1..20 |-> 57], <<98>>),                  \* exceeds usize
     WithLength(<<49>>, BodyOf(3)),                             \* more body than declared
     WithLength(<<51>>, BodyOf(1)),                             \* less body than declared
     WithLength(<<48>>, BodyOf(2)),                             \* a body after length 0
     WithLength(<<56>>, BodyOf(8))}

NoTerminatorResp == [BaseResp EXCEPT !.term = FALSE]

FullResp ==
    [BaseResp EXCEPT !.ct = Some([name |-> S_ContentType, ws |-> <<32>>, value |-> S_a_b]),
                     !.cl = ClOption(S_ContentLength, <<32>>, MaxBody),
                     !.body = BodyOf(MaxBody)]

\* An answer that declares, and sends, more body than the buffer of its call holds
LargeLength == 40
LargeBody == [i \in 1..LargeLength |-> 97 + (i % 26)]
LargeResp == WithLength(ToDecimal(LargeLength), LargeBody)
LargeHeaderLen == Len(StreamOf(LargeResp)) - Len(LargeBody)

\* The requests
S_path        == <<47, 97>>                                    \* "/a"
S_user        == <<117>>                                       \* "u"
S_pass        == <<112, 119>>                                  \* "pw"
S_hi          == <<104, 105>>                                  \* "hi"
S_host        == <<104>>                                       \* "h"
ExtraPairs    == << <<<<65>>, <<49>>>>, <<<<66>>, <<>>>> >>    \* ("A", "1"), ("B", "")

MinimalRequest ==
    [method |-> "GET", path |-> None, auth |-> None, content_type |-> None,
     payload |-> None, extra_headers |-> None]

FullRequest ==
    [method |-> "POST", path |-> Some(S_path),
     auth |-> Some([username |-> S_user, password |-> S_pass]),
     content_type |-> Some("ApplicationJson"),
     payload |-> Some(S_hi), extra_headers |-> Some(ExtraPairs)]

\* Longest list of extra headers in a request of the model
MaxExtra == 2

Requests ==
    {[method |-> m, path |-> p, auth |-> a, content_type |-> c, payload |-> b,
      extra_headers |-> x] :
        m \in {"GET", "POST"},
        p \in {None, Some(S_path)},
        a \in {None, Some([username |-> S_user, password |-> S_pass])},
        c \in {None, Some("ApplicationJson")},
        b \in {None, Some(<<>>), Some(S_hi)},
        x \in {None} \cup {Some(Take(ExtraPairs \o ExtraPairs, n)) : n \in 0..MaxExtra}}
      \cup {[MinimalRequest EXCEPT !.method = m, !.content_type = Some("TextPlain")]
              : m \in {"PUT", "DELETE"}}
      \cup {[MinimalRequest EXCEPT !.auth =
                Some([username |-> [i \in 1..n |-> 117], password |-> <<>>])]
              : n \in {CombinedCap - 1, CombinedCap}}

Scenario(req, r, len, shorts) ==
    [req |-> req, host |-> S_host, resp |-> r, rx_len |-> len, shorts |-> shorts]

Fits(r) == Len(StreamOf(r))

Scenarios ==
    {Scenario(MinimalRequest, r, Fits(r), 0) : r \in WellFormedResps}
      \cup {Scenario(MinimalRequest, r, Fits(r), 0)
              : r \in OddStatusResps \cup OddLineResps \cup OddLengthResps}
      \cup {Scenario(MinimalRequest, NoTerminatorResp, n, 0)
              : n \in {0, 1, Fits(NoTerminatorResp)}}
      \cup {Scenario(MinimalRequest, FullResp, Fits(FullResp) + d, 0)
              : d \in {-Fits(FullResp), -MaxBody - 1, -MaxBody, -2, -1, 1}}
      \cup {Scenario(MinimalRequest, LargeResp, LargeHeaderLen + d, 0) : d \in {0, 2}}
      \cup {Scenario(req, BaseResp, Fits(BaseResp), 0) : req \in Requests}
      \cup {Scenario(FullRequest, BaseResp, Fits(BaseResp), 1)}

\* The state in which a call of sc starts at position at.
CallState(sc, at) ==
    /\ request = sc.req
    /\ host = sc.host
    /\ resp = sc.resp
    /\ stream = StreamOf(sc.resp)
    /\ rx_len = sc.rx_len
    /\ rx_buf = [i \in 1..sc.rx_len |-> 0]
    /\ short_left = sc.shorts
    /\ pc = at
    /\ xh_idx = 0
    /\ piece_idx = 0
    /\ wlog = <<>>
    /\ delivered = 0
    /\ zero_reads = 0
    /\ rd_err = None
    /\ pos = 0
    /\ header_end = 0
    /\ status = BadRequest
    /\ content_type = None
    /\ content_length = Usize(0)
    /\ to_read = 0
    /\ result = Pending

Init ==
    /\ \E sc \in Scenarios : CallState(sc, "request_line")
    /\ fn_in = <<>>
    /\ fn_out = Pending

Next ==
    \/ WriteRequestLine
    \/ WriteHost
    \/ WriteAuth
    \/ WriteContentType
    \/ WriteContentLength
    \/ WriteExtraHeader
    \/ WriteBlank
    \/ WritePayload
    \/ ReadHeader
    \/ HeaderBufferFull
    \/ ParseHeader
    \/ Compact
    \/ PayloadSetup
    \/ ReadPayload
    \/ Respond

Spec == Init /\ [][Next]_vars

----------------------------------------------------------------------------
(* The lexical helpers on their own *)

\* Longest haystack and needle given to find_sequence
MaxHaystack == 6
MaxNeedle   == 4

FindInputs ==
    {[haystack |-> h, needle |-> n] :
        h \in Seqs({13, 10, 102}, MaxHaystack), n \in Seqs({13, 10}, MaxNeedle)}

NoCall == Scenario(MinimalRequest, BaseResp, 0, 0)

InitFind ==
    /\ CallState(NoCall, "find_sequence")
    /\ fn_in \in FindInputs
    /\ fn_out = Pending

CallFindSequence ==
    /\ pc = "find_sequence"
    /\ fn_out' = find_sequence(fn_in.haystack, fn_in.needle)
    /\ pc' = "returned"
    /\ UNCHANGED <<encVars, netVars, decVars, fn_in, rx_len, result, resp>>

SpecFind == InitFind /\ [][CallFindSequence]_vars

\* Lines and header names given to match_header: strings of whole characters,
\* one of them two bytes long.
MaxLineChars == 4
MaxNameLen   == 3
LineChars == {<<97>>, <<65>>, <<98>>, <<195, 169>>}        \* a, A, b, e-acute

MatchInputs ==
    {[line |-> Flatten(cs), hdr |-> h] :
        cs \in Seqs(LineChars, MaxLineChars), h \in Seqs({97, 65, 98}, MaxNameLen)}

InitMatch ==
    /\ CallState(NoCall, "match_header")
    /\ fn_in \in MatchInputs
    /\ fn_out = Pending

CallMatchHeader ==
    /\ pc = "match_header"
    /\ fn_out' = match_header(fn_in.line, fn_in.hdr)
    /\ pc' = "returned"
    /\ UNCHANGED <<encVars, netVars, decVars, fn_in, rx_len, result, resp>>

SpecMatch == InitMatch /\ [][CallMatchHeader]_vars

----------------------------------------------------------------------------
(* Properties of the encoder and the decoder *)

\* content_length as a number (every length of the model's answers that parses
\* is below 2^31)
ContentLength == UsizeInt(content_length)

\* A read call was issued: it delivered bytes, returned Ok(0) or returned an error.
ReadIssued == delivered > 0 \/ zero_reads > 0 \/ rd_err.tag = "Some"

\* No step of the transport's read side
NoRead == UNCHANGED <<delivered, zero_reads, rd_err>>

NumExtra(req) ==
    IF req.extra_headers.tag = "Some" THEN Len(req.extra_headers.val) ELSE 0

\* The number of write calls a request makes when none fails
ExpectedWriteCount(req) ==
    4 + 4 + (IF req.auth.tag = "Some" THEN 3 ELSE 0)
      + (IF req.content_type.tag = "Some" THEN 4 ELSE 0)
      + (IF req.payload.tag = "Some" THEN 4 ELSE 0)
      + 4 * NumExtra(req) + 1
      + (IF req.payload.tag = "Some" THEN 1 ELSE 0)

\* Every write of the request was issued and returned Ok.
EncoderFinished ==
    /\ Len(wlog) = ExpectedWriteCount(request)
    /\ \A i \in 1..Len(wlog) : wlog[i].out.tag = "Ok"

DecoderPositions ==
    {"read_header", "parse_header", "compact", "payload_setup", "read_payload", "respond"}

FitsBuffer == rx_len >= Len(stream)

IsCodecError(r)   == r.tag = "Err" /\ r.err.kind = "Codec"
IsNetworkError(r, k) == r.tag = "Err" /\ r.err.kind = "Network" /\ r.err.io = k

\* C1 (as claimed): when the receive buffer has been filled completely and the
\* bytes read hold no CR LF CR LF, read_response fails with Error::Codec.
C1_FullBufferFailsWithCodec ==
    (/\ pc = "done"
     /\ EncoderFinished
     /\ rd_err.tag = "None"
     /\ delivered > 0
     /\ delivered = rx_len
     /\ FindWindow(Take(stream, rx_len), S_TERM, 0).tag = "None")
        => IsCodecError(result)

\* C2: for a well-formed answer that fits the buffer and declares Content-Length
\* > 0, however the transport splits it into reads, the call returns Ok with a
\* payload as long as the declared Content-Length.
C2_PayloadHasDeclaredLength ==
    (/\ pc = "done"
     /\ EncoderFinished
     /\ rd_err.tag = "None"
     /\ resp \in WellFormedResps
     /\ DeclaredLength(resp.cl) > 0
     /\ FitsBuffer)
        => /\ result.tag = "Ok"
           /\ result.val.payload.tag = "Some"
           /\ Len(result.val.payload.val) = DeclaredLength(resp.cl)

C2_Witness ==
    /\ pc = "done"
    /\ result.tag = "Ok"
    /\ resp \in WellFormedResps
    /\ zero_reads > 0
    /\ result.val.payload.tag = "Some"
    /\ Len(result.val.payload.val) = MaxBody

\* C3: once the header is parsed with content_length = 0, no step issues a
\* transport read and the call returns Ok with payload None.
C3_ZeroLengthNoPayloadNoRead ==
    [][(pc \in {"compact", "payload_setup", "respond"} /\ ContentLength = 0)
        => /\ NoRead
           /\ pc' \in {"payload_setup", "respond", "done"}
           /\ pc' = "done" => (result'.tag = "Ok" /\ result'.val.payload.tag = "None")]_vars

C3_Witness ==
    /\ pc = "done"
    /\ result.tag = "Ok"
    /\ result.val.payload.tag = "None"
    /\ header_end > 0
    /\ resp.cl.tag = "Some"
    /\ resp.cl.val.text = <<48>>

\* The request on the wire, as HTTP/1.1 lays it out
IssuedData == [i \in 1..Len(wlog) |-> wlog[i].data]
HeaderLineWire(k, v) == k \o <<58, 32>> \o v \o <<13, 10>>
RECURSIVE ExtraWire(_)
ExtraWire(hs) ==
    IF hs = <<>> THEN <<>> ELSE HeaderLineWire(hs[1][1], hs[1][2]) \o ExtraWire(Tail(hs))
DecimalText(n) ==
    CHOOSE d \in Seqs(48..57, 2) :
        d # <<>> /\ DigitsValue(d) = n /\ (Len(d) > 1 => d[1] # 48)
ExpectedWire(req, h) ==
    MethodStr(req.method) \o <<32>>
      \o (IF req.path.tag = "Some" THEN req.path.val ELSE <<47>>)
      \o <<32, 72, 84, 84, 80, 47, 49, 46, 49, 13, 10>>
      \o HeaderLineWire(S_Host, h)
      \o (IF req.auth.tag = "Some"
          THEN S_AuthBasic
                 \o Base64(req.auth.val.username \o <<58>> \o req.auth.val.password)
                 \o <<13, 10>>
          ELSE <<>>)
      \o (IF req.content_type.tag = "Some"
          THEN HeaderLineWire(S_ContentType, ContentTypeStr(req.content_type.val))
          ELSE <<>>)
      \o (IF req.payload.tag = "Some"
          THEN HeaderLineWire(S_ContentLength, DecimalText(Len(req.payload.val)))
          ELSE <<>>)
      \o (IF req.extra_headers.tag = "Some" THEN ExtraWire(req.extra_headers.val) ELSE <<>>)
      \o <<13, 10>>
      \o (IF req.payload.tag = "Some" THEN req.payload.val ELSE <<>>)

\* C4: the writes issued are, in order, the request line, Host, Authorization
\* iff auth, Content-Type iff content_type, Content-Length (decimal length) iff
\* payload, the extra headers, the blank line and last the payload iff present:
\* what has been written is always a prefix of that layout, and all of it once
\* the encoder is through, the payload being the one write after the blank line.
C4_WriteOrder ==
    /\ IsPrefix(Flatten(IssuedData), ExpectedWire(request, host))
    /\ (pc \in DecoderPositions \/ (pc = "done" /\ EncoderFinished)) =>
          /\ Flatten(IssuedData) = ExpectedWire(request, host)
          /\ Len(wlog) = ExpectedWriteCount(request)
          /\ IF request.payload.tag = "Some"
             THEN /\ wlog[Len(wlog)].data = request.payload.val
                  /\ wlog[Len(wlog) - 1].data = <<13, 10>>
             ELSE wlog[Len(wlog)].data = <<13, 10>>

C4_Witness ==
    /\ pc = "read_header"
    /\ request = FullRequest
    /\ Len(wlog) = ExpectedWriteCount(FullRequest)
    /\ Flatten(IssuedData) = ExpectedWire(FullRequest, host)

\* C5: a read is issued only after every write of the request returned Ok; a
\* write that returns an error is the last write, the call returns
\* Error::Network with its kind, and no read is issued.
C5_ReadOnlyAfterWrites ==
    /\ ReadIssued => EncoderFinished
    /\ \A i \in 1..Len(wlog) :
          wlog[i].out.tag = "Err" =>
             /\ i = Len(wlog)
             /\ pc = "done"
             /\ IsNetworkError(result, wlog[i].out.err)
             /\ ~ReadIssued

C5_Witness ==
    /\ pc = "done"
    /\ request.payload.tag = "Some"
    /\ Len(wlog) = ExpectedWriteCount(request)
    /\ wlog[Len(wlog)].out.tag = "Err"
    /\ IsNetworkError(result, "TimedOut")

\* C6: a read that returns an error ends the call at once with Error::Network
\* of the same kind: nothing is read afterwards and no Response is returned.
C6_ReadErrorReturnsNetwork ==
    /\ [](rd_err.tag = "Some" => pc = "done" /\ IsNetworkError(result, rd_err.val))
    /\ [][rd_err.tag = "Some" => UNCHANGED <<delivered, zero_reads, rd_err, result, pc>>]_vars

C6_Witness ==
    /\ rd_err.tag = "Some"
    /\ pc = "done"
    /\ ContentLength > 0
    /\ pos > 0
    /\ to_read > 0
    /\ IsNetworkError(result, "ConnectionReset")

\* C7 (as claimed): find_sequence returns Some(p) for the smallest offset p at
\* which needle occurs in haystack, and None exactly when there is no occurrence.
Occurrences(h, n) ==
    {p \in 0..Len(h) : p + Len(n) <= Len(h) /\ SubSeq(h, p + 1, p + Len(n)) = n}
C7_FindSequenceLeftmost ==
    pc = "returned" =>
        LET occ == Occurrences(fn_in.haystack, fn_in.needle) IN
        IF occ = {} THEN fn_out.tag = "None"
        ELSE /\ fn_out.tag = "Some"
             /\ fn_out.val \in occ
             /\ \A q \in occ : fn_out.val <= q

\* C8 (as claimed): match_header returns true iff line is at least as long as
\* name and its first name.len() bytes equal name ignoring ASCII case; it always
\* returns.
C8_MatchHeaderIff ==
    pc = "returned" =>
        /\ fn_out.tag = "Ok"
        /\ fn_out.val =
             (/\ Len(fn_in.line) >= Len(fn_in.hdr)
              /\ \A i \in 1..Len(fn_in.hdr) :
                    ToAsciiLower(fn_in.line[i]) = ToAsciiLower(fn_in.hdr[i]))

\* C9: a Content-Type line, its name in any case, yields content_type =
\* Some(value), the text after the colon without its leading white space, and
\* the value stays that through compaction and the payload reads.
C9_ContentTypeValue ==
    (/\ resp.ct.tag = "Some"
     /\ header_end > 0
     /\ \/ pc \in {"compact", "payload_setup", "read_payload", "respond"}
        \/ pc = "done" /\ result.tag = "Ok")
        => /\ content_type = Some(resp.ct.val.value)
           /\ pc = "done" => result.val.content_type = Some(resp.ct.val.value)

C9_Witness ==
    /\ pc = "done"
    /\ result.tag = "Ok"
    /\ resp.ct.tag = "Some"
    /\ resp.ct.val.ws = <<32, 9>>
    /\ result.val.content_type = Some(S_a_b)
    /\ result.val.payload.tag = "Some"
    /\ Len(result.val.payload.val) = MaxBody

\* The status the header lines of r stand for: the three characters at offsets
\* 9..12 of the (last) line starting with HTTP, when they are a supported code.
HttpLines(r) == SelectSeq(HeaderLines(r), LAMBDA l : IsPrefix(S_HTTP, l))
ExpectedStatus(r) ==
    IF HttpLines(r) = <<>> THEN BadRequest
    ELSE LET l == HttpLines(r)[Len(HttpLines(r))]
             n == (l[10] - 48) * 100 + (l[11] - 48) * 10 + (l[12] - 48)
         IN IF (\A i \in 10..12 : IsDigit(l[i])) /\ n \in SupportedStatus
            THEN n ELSE BadRequest

\* C10: the returned status is the supported code written at offsets 9..12 of
\* the line starting with HTTP; it is Status::BadRequest for any other numeric
\* code and when no line starts with HTTP; a well-formed answer is decoded.
C10_StatusFromStatusLine ==
    /\ (pc = "done" /\ header_end > 0 /\ result.tag = "Ok")
          => result.val.status = ExpectedStatus(resp)
    /\ (/\ pc = "done"
        /\ EncoderFinished
        /\ rd_err.tag = "None"
        /\ resp \in WellFormedResps
        /\ FitsBuffer)
          => result.tag = "Ok"

C10_Witness ==
    /\ pc = "done"
    /\ result.tag = "Ok"
    /\ resp.status_line = Some(StatusLineOf(S_299))
    /\ result.val.status = BadRequest

\* The bytes of the stream that follow the header terminator found by the call
AfterHeader == Drop(stream, header_end)

\* The call is past the set-up of the payload loop (lines 152-157).
PastPayloadSetup == header_end > 0 /\ pc \in {"read_payload", "respond", "done"}

\* C11 (as claimed): when more bytes are buffered behind the header terminator
\* than a declared Content-Length > 0, read_response returns Error::Codec; the
\* subtraction content_length - pos neither wraps nor aborts the program.  (Only
\* such an excess lets the bytes taken behind the terminator exceed the length.)
C11_ExcessBufferedFailsWithCodec ==
    (/\ PastPayloadSetup
     /\ ContentLength > 0
     /\ delivered - header_end > ContentLength)
        => pc = "done" /\ IsCodecError(result)

\* C12: with Content-Length above rx_buf.len() and enough body bytes supplied,
\* the fetch is capped at the capacity: no read is aimed past the end of rx_buf,
\* and the call returns Ok with the first rx_buf.len() body bytes as payload.
C12_TruncatedToCapacity ==
    (/\ header_end > 0
     /\ ContentLength > rx_len
     /\ Len(AfterHeader) >= rx_len)
        => /\ pc = "read_payload" => pos + to_read = rx_len
           /\ (pc = "done" /\ rd_err.tag = "None")
                 => /\ result.tag = "Ok"
                    /\ result.val.payload = Some(Take(AfterHeader, rx_len))

C12_Witness ==
    /\ pc = "done"
    /\ result.tag = "Ok"
    /\ ContentLength = LargeLength
    /\ rx_len = LargeHeaderLen + 2
    /\ result.val.payload = Some(Take(LargeBody, rx_len))

\* C13: compaction moves the pos - header_end bytes buffered behind the header
\* to the front unchanged and reduces pos by header_end; the payload returned is
\* the bytes that follow the header terminator in the stream, in stream order,
\* however the stream was split into reads.
C13_CompactionKeepsPayload ==
    /\ [][pc = "compact" =>
            /\ pos' = pos - header_end
            /\ \A i \in 1..(pos - header_end) : rx_buf'[i] = rx_buf[header_end + i]]_vars
    /\ []((header_end > 0 /\ pc \in {"payload_setup", "read_payload", "respond"})
            => Take(rx_buf, pos) = Take(AfterHeader, pos))
    /\ []((pc = "done" /\ result.tag = "Ok" /\ result.val.payload.tag = "Some")
            => IsPrefix(result.val.payload.val, AfterHeader))

C13_Witness ==
    /\ pc = "read_payload"
    /\ resp = FullResp
    /\ FitsBuffer
    /\ pos > 0
    /\ to_read > 0
    /\ delivered = header_end + pos
    /\ Take(rx_buf, pos) = Take(BodyOf(MaxBody), pos)

\* The offsets at which CR LF CR LF occurs in the stream
TermOffsets == Occurrences(stream, S_TERM)

\* C14: when the terminator is found, header_end is 4 plus the offset of the
\* first CR LF CR LF of the stream and header_end <= pos, however the stream is
\* split into reads; the header loop is at a read only while the bytes buffered
\* so far, which are the first pos bytes of the stream, hold no terminator.
C14_HeaderEndAtFirstTerminator ==
    /\ header_end > 0 =>
          /\ header_end - 4 \in TermOffsets
          /\ \A q \in TermOffsets : header_end - 4 <= q
    /\ pc \in {"parse_header", "compact"} =>
          /\ header_end <= pos
          /\ pos = delivered
          /\ Take(rx_buf, pos) = Take(stream, pos)
    /\ pc = "read_header" =>
          /\ header_end = 0
          /\ Occurrences(Take(rx_buf, pos), S_TERM) = {}

C14_Witness ==
    /\ pc = "parse_header"
    /\ header_end > 0
    /\ header_end < pos
    /\ zero_reads > 0
    /\ \E q \in TermOffsets : q > header_end - 4

\* C15: a read that returns zero bytes, in the header loop or the payload loop,
\* changes none of pos, header_end, to_read and the buffer, gives no error and no
\* result, and leaves the call at the same read of the same region.
C15_ZeroReadLoops ==
    [][zero_reads' > zero_reads =>
          /\ pc \in {"read_header", "read_payload"}
          /\ UNCHANGED <<pc, pos, header_end, to_read, rx_buf, delivered, rd_err, result>>
          /\ result = Pending
          /\ pc = "read_header" => pos' < rx_len
          /\ pc = "read_payload" => to_read' > 0]_vars

C15_Witness ==
    /\ pc = "read_payload"
    /\ zero_reads = MaxZeroReads
    /\ resp = FullResp
    /\ pos > 0
    /\ to_read > 0

\* The text is no unsigned decimal number: it is empty or holds a character that
\* is not a digit (a sign, a letter, a trailing blank).
NotUnsignedDecimal(text) ==
    text = <<>> \/ \E i \in 1..Len(text) : ~IsDigit(text[i])

\* The text is no unsigned decimal number even with one sign + before its digits.
NotSignedPlusDecimal(text) ==
    LET ds == IF text # <<>> /\ text[1] = 43 THEN Tail(text) ELSE text IN
    NotUnsignedDecimal(ds)

\* The call is past header parsing with a Content-Length line whose value meets bad.
PastParsingWithLength(bad(_)) ==
    /\ resp.cl.tag = "Some"
    /\ bad(resp.cl.val.text)
    /\ header_end > 0
    /\ pc \notin {"read_header", "parse_header"}

\* The call ended in header parsing with Error::Codec: no compaction, no payload read.
FailedInParsingWithCodec ==
    /\ pc = "done"
    /\ IsCodecError(result)
    /\ pos = delivered
    /\ to_read = 0

\* C16 (as claimed): when the value of the Content-Length line (after the colon,
\* leading white space removed) is no unsigned decimal integer (it is empty,
\* negative, or has a non-digit or trailing character), the call returns
\* Error::Codec and issues no payload read.
C16_Original_NonDecimalLengthFailsWithCodec ==
    PastParsingWithLength(NotUnsignedDecimal) => FailedInParsingWithCodec

\* C16 (amended): the same for every such value except digits preceded by one
\* sign +, which the parser accepts: when the value is empty, negative, or has a
\* non-digit or trailing character other than one leading +, the call returns
\* Error::Codec and issues no payload read: it never reaches compaction or the
\* payload loop.
C16_BadContentLengthFailsWithCodec ==
    PastParsingWithLength(NotSignedPlusDecimal) => FailedInParsingWithCodec

C16_Witness ==
    /\ pc = "done"
    /\ IsCodecError(result)
    /\ resp.cl.tag = "Some"
    /\ resp.cl.val.text = <<51, 32>>
    /\ delivered > header_end

\* A header line the decoder cannot take a status or a value from: a line
\* starting with HTTP that is shorter than 12 characters or has, at offsets
\* 9..12, a character that is neither a digit nor a sign; a line that is the
\* name content-type or content-length and nothing more.
MalformedLine(l) ==
    \/ /\ IsPrefix(S_HTTP, l)
       /\ (Len(l) < 12 \/ \E i \in 10..12 : ~(IsDigit(l[i]) \/ l[i] = 43))
    \/ Len(l) = Len(S_content_type) /\ EqIgnoreAsciiCase(l, S_content_type)
    \/ Len(l) = Len(S_content_length) /\ EqIgnoreAsciiCase(l, S_content_length)

\* The call ended in header parsing: the terminator was found and the buffer was
\* never compacted.
EndedInParsing == pc = "done" /\ header_end > 0 /\ pos = delivered

\* C17 (as claimed): header parsing always ends by returning a Result; a header
\* block with a malformed status line (also one shorter than 12 characters) or
\* with a content-type/content-length line without colon and value makes the
\* call return Error::Codec, and it fails in no other way.
C17_MalformedHeaderFailsWithCodec ==
    /\ EndedInParsing => result.tag = "Err"
    /\ (/\ pc = "done"
        /\ header_end > 0
        /\ \E i \in 1..Len(HeaderLines(resp)) : MalformedLine(HeaderLines(resp)[i]))
          => IsCodecError(result)

\* A write call that returned Ok(n) with n below the length of its data
ShortWrite(e) == e.out.tag = "Ok" /\ e.out.val < Len(e.data)

\* C18: the encoder issues one write per piece and none for the remainder of a
\* short write: the writes are never more than the pieces of the request, their
\* data put together is a prefix of the request's layout (a byte written again
\* would break it), all pieces are written when the decoder starts, and after a
\* short write the call goes on: it fails only by a later write or read error.
C18_OneWritePerPiece ==
    /\ Len(wlog) <= ExpectedWriteCount(request)
    /\ IsPrefix(Flatten(IssuedData), ExpectedWire(request, host))
    /\ pc \in DecoderPositions => Len(wlog) = ExpectedWriteCount(request)
    /\ \A i \in 1..Len(wlog) :
          ShortWrite(wlog[i]) =>
             /\ i = Len(wlog) => (pc # "done" \/ EncoderFinished)
             /\ (pc = "done" /\ result.tag # "Ok") =>
                   \/ wlog[Len(wlog)].out.tag = "Err"
                   \/ rd_err.tag = "Some"

C18_Witness ==
    /\ pc = "done"
    /\ result.tag = "Ok"
    /\ EncoderFinished
    /\ \E i \in 1..(Len(wlog) - 1) : ShortWrite(wlog[i])

\* C19: with reads returning at most the length of their slice, always
\* 0 <= pos <= rx_buf.len(); up to compaction 0 <= header_end <= pos; from the
\* payload set-up on pos + to_read <= rx_buf.len(); a returned payload is no
\* longer than rx_buf.  So every read range, every compaction index and the
\* payload slice lie within rx_buf.
C19_CursorsWithinBuffer ==
    /\ 0 <= pos /\ pos <= rx_len
    /\ 0 <= header_end /\ header_end <= rx_len
    /\ 0 <= to_read /\ pos + to_read <= rx_len
    /\ pc \in {"read_header", "parse_header", "compact"} => header_end <= pos
    /\ (pc = "done" /\ result.tag = "Ok" /\ result.val.payload.tag = "Some")
          => Len(result.val.payload.val) <= rx_len

C19_Witness ==
    /\ pc = "read_payload"
    /\ pos > 0
    /\ to_read > 0
    /\ pos + to_read = rx_len
    /\ ContentLength > rx_len

\* C20 (as claimed): when every read returns an error or at least one byte,
\* read_response terminates by returning Ok or Err: a read of the header loop
\* that returns Ok raises pos, which stays within rx_buf.len(); a read of the
\* payload loop that returns Ok lowers to_read, which starts at no more than
\* min(rx_buf.len() - pos, bytes still missing of the declared length); no other
\* step issues a read, and the call ends in Ok or Err.
C20_ReadResponseReturns ==
    /\ [][(zero_reads' = 0 /\ delivered' # delivered) =>
             \/ pc = "read_header" /\ pos' > pos /\ pos' <= rx_len
             \/ pc = "read_payload" /\ to_read' < to_read /\ to_read' >= 0]_vars
    /\ []((zero_reads = 0 /\ pc = "read_payload")
             => pos + to_read <= Min(rx_len, ContentLength))
    /\ []((zero_reads = 0 /\ pc = "done") => result.tag \in {"Ok", "Err"})

====
